---- MODULE Spec2Model ----
(***************************************************************************)
(* A model of aswwu/models.py: the declarative record classes of the two   *)
(* hierarchies (Base, ElectionBase), their column defaults and onupdate    *)
(* hooks, the reflective serialization to_json, the views built on it, and *)
(* Volunteer.only_true.                                                    *)
(*                                                                         *)
(* Python values are tagged records, so that str(), == and != are computed *)
(* the way the interpreter (Python 2, which pattern.en requires) does.     *)
(***************************************************************************)
EXTENDS Integers, Sequences, FiniteSets, TLC

VARIABLES rows, now, last

vars == <<rows, now, last>>

----------------------------------------------------------------------------
(* Bounds of the model.                                                    *)

MaxRows == 2
MaxTime == 1
MaxMutations == 2
NumUuids == 2
MaxLimit == 2
MaxSkip == 1
MaxOverride == 1

----------------------------------------------------------------------------
(* Python values.                                                          *)

None == [t |-> "NoneType"]
BoolVal(b) == [t |-> "bool", b |-> b]
IntVal(i) == [t |-> "int", i |-> i]
StrVal(s) == [t |-> "str", s |-> s]
\* a unicode object; ascii tells whether every code point is below 128
UnicodeVal(s, ascii) == [t |-> "unicode", s |-> s, ascii |-> ascii]
DateTimeVal(n) == [t |-> "datetime", n |-> n]
BoundMethod(name) == [t |-> "instancemethod", s |-> name]

Range(s) == {s[i] : i \in 1..Len(s)}

\* str(value): [ok |-> TRUE, s |-> the string], or [ok |-> FALSE] when the
\* conversion raises (a unicode object with a non-ascii code point raises
\* UnicodeEncodeError under the default codec).
PyStr(value) ==
    CASE value.t = "NoneType" -> [ok |-> TRUE, s |-> "None"]
      [] value.t = "bool" -> [ok |-> TRUE, s |-> IF value.b THEN "True" ELSE "False"]
      [] value.t = "int" -> [ok |-> TRUE, s |-> ToString(value.i)]
      [] value.t = "str" -> [ok |-> TRUE, s |-> value.s]
      [] value.t = "unicode" ->
            IF value.ascii THEN [ok |-> TRUE, s |-> value.s] ELSE [ok |-> FALSE]
      [] value.t = "datetime" ->
            [ok |-> TRUE, s |-> "2017-01-01 00:00:0" \o ToString(value.n)]
      [] value.t = "instancemethod" ->
            [ok |-> TRUE, s |-> "<bound method " \o value.s \o ">"]

\* value == True: True itself, and the integer 1
PyEqTrue(value) ==
    \/ value.t = "bool" /\ value.b
    \/ value.t = "int" /\ value.i = 1

\* value != '': everything but the empty str and the empty unicode
PyNeEmpty(value) == ~(value.t \in {"str", "unicode"} /\ value.s = "")

----------------------------------------------------------------------------
(* The classes and their columns.                                          *)

\* User is declared twice, once per hierarchy; the second is named
\* ElectionUser here.
BaseClasses == {"User", "Profile", "Volunteer"}
ElectionClasses == {"ElectionUser", "Election"}
Classes == BaseClasses \cup ElectionClasses

\* __tablename__: pluralize(cls.__name__.lower())
Tablename(cls) ==
    CASE cls = "User" -> "users"
      [] cls = "Profile" -> "profiles"
      [] cls = "Volunteer" -> "volunteers"
      [] cls = "ElectionUser" -> "users"
      [] cls = "Election" -> "elections"

\* the table a row lives in: tables of the two declarative bases are in
\* separate metadata
Table(cls) == <<IF cls \in BaseClasses THEN "Base" ELSE "ElectionBase", Tablename(cls)>>

UserColumns == <<"wwuid", "username", "full_name", "status", "roles">>

ProfileColumns ==
    << "wwuid", "username", "full_name", "photo", "gender", "birthday", "email", "phone",
       "website", "majors", "minors", "graduate", "preprofessional", "class_standing",
       "high_school", "class_of", "relationship_status", "attached_to", "quote",
       "quote_author", "hobbies", "career_goals", "favorite_books", "favorite_food",
       "favorite_movies", "favorite_music", "pet_peeves", "personality", "views", "privacy",
       "department", "office", "office_hours" >>

\* the Boolean columns of Volunteer, in declaration order
VolunteerBooleanColumns ==
    << "campus_ministries", "student_missions", "aswwu", "circle_church", "university_church",
       "buddy_program", "assist", "lead", "audio_slash_visual", "health_promotion",
       "construction_experience", "outdoor_slash_camping", "concert_assistance",
       "event_set_up", "children_ministries", "children_story",
       "art_poetry_slash_painting_slash_sculpting", "organizing_events",
       "organizing_worship_opportunities", "organizing_community_outreach", "bible_study",
       "wycliffe_bible_translator_representative", "food_preparation", "graphic_design",
       "poems_slash_spoken_word", "prayer_team_slash_prayer_house",
       "dorm_encouragement_and_assisting_chaplains", "scripture_reading", "speaking",
       "videography", "drama", "public_school_outreach",
       "retirement_slash_nursing_home_outreach", "helping_the_homeless_slash_disadvantaged",
       "working_with_youth", "working_with_children", "greeting", "shofar_for_vespers",
       "join_small_groups", "lead_small_groups", "can_transport_things",
       "wants_to_be_involved" >>

\* the String columns of Volunteer that hold free text
VolunteerTextColumns == <<"music", "languages">>

VolunteerColumns ==
    << "wwuid", "campus_ministries", "student_missions", "aswwu", "circle_church",
       "university_church", "buddy_program", "assist", "lead", "audio_slash_visual",
       "health_promotion", "construction_experience", "outdoor_slash_camping",
       "concert_assistance", "event_set_up", "children_ministries", "children_story",
       "art_poetry_slash_painting_slash_sculpting", "organizing_events",
       "organizing_worship_opportunities", "organizing_community_outreach", "bible_study",
       "wycliffe_bible_translator_representative", "food_preparation", "graphic_design",
       "poems_slash_spoken_word", "prayer_team_slash_prayer_house",
       "dorm_encouragement_and_assisting_chaplains", "scripture_reading", "speaking",
       "videography", "drama", "public_school_outreach",
       "retirement_slash_nursing_home_outreach", "helping_the_homeless_slash_disadvantaged",
       "working_with_youth", "working_with_children", "greeting", "shofar_for_vespers",
       "music", "join_small_groups", "lead_small_groups", "can_transport_things", "languages",
       "wants_to_be_involved", "updated_at" >>

ElectionColumns ==
    << "wwuid", "candidate_one", "candidate_two", "sm_one", "sm_two", "new_department",
       "district", "updated_at" >>

\* the columns a class declares in its own body
OwnColumns(cls) ==
    CASE cls \in {"User", "ElectionUser"} -> UserColumns
      [] cls = "Profile" -> ProfileColumns
      [] cls = "Volunteer" -> VolunteerColumns
      [] cls = "Election" -> ElectionColumns

\* the columns every class gets from its base: id and updated_at
MixinColumns == <<"id", "updated_at">>

\* self.__table__.columns, by name: the mixin's columns, then the class's own
\* (a redeclared updated_at appears once). A mapping has no order, so the
\* order chosen here is not observable in to_json's result.
ColumnsOf ==
    [cls \in Classes |->
        SelectSeq(MixinColumns, LAMBDA c : c \notin Range(OwnColumns(cls))) \o OwnColumns(cls)]

Columns(cls) == ColumnsOf[cls]

\* the methods of a class: attributes that are not columns
Methods(cls) ==
    {"to_json"} \cup
    CASE cls = "Profile" -> {"base_info"}
      [] cls = "Volunteer" -> {"only_true"}
      [] cls = "Election" -> {"voters", "base_info", "info"}
      [] OTHER -> {}

\* the names getattr finds on an instance: its columns and its methods
AttributesOf == [cls \in Classes |-> Range(ColumnsOf[cls]) \cup Methods(cls)]

----------------------------------------------------------------------------
(* Records.  A row is [cls, attrs] plus history kept for the properties:   *)
(* id0 (the identifier given at construction), ctime (the construction     *)
(* time), nmut (the number of updates) and mtime (the time of the last).   *)

HasAttr(self, key) == key \in AttributesOf[self.cls]

\* getattr(self, key), for a key HasAttr holds of
GetAttr(self, key) ==
    IF key \in DOMAIN self.attrs THEN self.attrs[key] ELSE BoundMethod(key)

\* obj[key] = s
DictSet(obj, key, s) == (key :> s) @@ obj

EmptyDict == [k \in {} |-> ""]

\* kwargs.get(name, default)
KwGet(kwargs, name, default) ==
    IF name \in DOMAIN kwargs THEN kwargs[name] ELSE default

Return(obj) == [ok |-> TRUE, obj |-> obj]
Raise(exc) == [ok |-> FALSE, exc |-> exc]

----------------------------------------------------------------------------
(* Base.to_json                                                            *)

\* Fault: the conversion is not guarded, so a failure leaves the call.
Base_to_json_body_Unguarded(self, key, skipList, obj) ==
    IF key \notin Range(skipList)
    THEN IF ~HasAttr(self, key)
         THEN Raise("AttributeError")
         ELSE LET value == GetAttr(self, key)
                  s == PyStr(value)
              IN  IF s.ok THEN Return(DictSet(obj, key, s.s)) ELSE Raise("UnicodeEncodeError")
    ELSE Return(obj)

\* Fault: the attribute is read inside the guard, so a missing attribute is
\* skipped like a failed conversion.
Base_to_json_body_GuardedGetattr(self, key, skipList, obj) ==
    IF key \notin Range(skipList)
    THEN IF ~HasAttr(self, key)
         THEN Return(obj)
         ELSE LET value == GetAttr(self, key)
                  s == PyStr(value)
              IN  IF s.ok THEN Return(DictSet(obj, key, s.s)) ELSE Return(obj)
    ELSE Return(obj)

\* one iteration of Base.to_json's loop: the dictionary after it, or the
\* exception that leaves the loop
Base_to_json_body(self, key, skipList, obj) ==
    IF key \notin Range(skipList)
    THEN IF ~HasAttr(self, key)
         THEN Raise("AttributeError")
         ELSE LET value == GetAttr(self, key)
                  s == PyStr(value)
              IN  IF s.ok THEN Return(DictSet(obj, key, s.s)) ELSE Return(obj)
    ELSE Return(obj)

\* the iterations lo..hi of the loop over limitList, entered with outcome r:
\* an exception ends the loop. The range is split in halves, which runs the
\* iterations in the same order.
RECURSIVE Base_to_json_for(_, _, _, _, _, _)
Base_to_json_for(self, limitList, skipList, lo, hi, r) ==
    IF ~r.ok \/ lo > hi
    THEN r
    ELSE IF lo = hi
         THEN Base_to_json_body(self, limitList[lo], skipList, r.obj)
         ELSE LET mid == (lo + hi) \div 2
              IN  Base_to_json_for(self, limitList, skipList, mid + 1, hi,
                                  Base_to_json_for(self, limitList, skipList, lo, mid, r))

\* Fault: limitList is not read from the options; every column is checked.
Base_to_json_IgnoresLimit(self, kwargs) ==
    LET columns == Columns(self.cls)
        skipList == <<"id">> \o KwGet(kwargs, "skipList", <<>>)
        limitList == columns
    IN  Base_to_json_for(self, limitList, skipList, 1, Len(limitList), Return(EmptyDict))

\* Fault: 'id' is only the default of skipList, so a caller's list replaces it.
Base_to_json_SkipReplacesId(self, kwargs) ==
    LET columns == Columns(self.cls)
        skipList == KwGet(kwargs, "skipList", <<"id">>)
        limitList == KwGet(kwargs, "limitList", columns)
    IN  Base_to_json_for(self, limitList, skipList, 1, Len(limitList), Return(EmptyDict))

Base_to_json(self, kwargs) ==
    LET columns == Columns(self.cls)
        skipList == <<"id">> \o KwGet(kwargs, "skipList", <<>>)
        limitList == KwGet(kwargs, "limitList", columns)
    IN  Base_to_json_for(self, limitList, skipList, 1, Len(limitList), Return(EmptyDict))

----------------------------------------------------------------------------
(* ElectionBase.to_json: the same routine, declared a second time          *)

ElectionBase_to_json_body(self, key, skipList, obj) ==
    IF key \notin Range(skipList)
    THEN IF ~HasAttr(self, key)
         THEN Raise("AttributeError")
         ELSE LET value == GetAttr(self, key)
                  s == PyStr(value)
              IN  IF s.ok THEN Return(DictSet(obj, key, s.s)) ELSE Return(obj)
    ELSE Return(obj)

\* the iterations lo..hi of the loop over limitList, entered with outcome r:
\* an exception ends the loop. The range is split in halves, which runs the
\* iterations in the same order.
RECURSIVE ElectionBase_to_json_for(_, _, _, _, _, _)
ElectionBase_to_json_for(self, limitList, skipList, lo, hi, r) ==
    IF ~r.ok \/ lo > hi
    THEN r
    ELSE IF lo = hi
         THEN ElectionBase_to_json_body(self, limitList[lo], skipList, r.obj)
         ELSE LET mid == (lo + hi) \div 2
              IN  ElectionBase_to_json_for(self, limitList, skipList, mid + 1, hi,
                                  ElectionBase_to_json_for(self, limitList, skipList, lo, mid, r))

ElectionBase_to_json(self, kwargs) ==
    LET columns == Columns(self.cls)
        skipList == <<"id">> \o KwGet(kwargs, "skipList", <<>>)
        limitList == KwGet(kwargs, "limitList", columns)
    IN  ElectionBase_to_json_for(self, limitList, skipList, 1, Len(limitList), Return(EmptyDict))

\* self.to_json(**kwargs), by the class of self
to_json(self, kwargs) ==
    IF self.cls \in BaseClasses
    THEN Base_to_json(self, kwargs)
    ELSE ElectionBase_to_json(self, kwargs)

----------------------------------------------------------------------------
(* The views built on to_json.                                             *)

\* Fault: the view's list also names wwuid.
Profile_base_info_WithWwuid(self) ==
    to_json(self, [limitList |-> <<"wwuid", "username", "full_name", "photo", "email", "views">>])

Profile_base_info(self) ==
    to_json(self, [limitList |-> <<"username", "full_name", "photo", "email", "views">>])

Election_voters(self) == to_json(self, [limitList |-> <<"wwuid">>])

Election_base_info(self) == to_json(self, [limitList |-> <<"wwuid", "updated_at">>])

Election_info(self) ==
    to_json(self, [limitList |-> <<"wwuid", "candidate_one", "candidate_two", "sm_one",
                                   "sm_two", "new_department", "updated_at">>])

Views(cls) ==
    CASE cls = "Profile" -> {"base_info"}
      [] cls = "Election" -> {"voters", "base_info", "info"}
      [] OTHER -> {}

\* self.<view>()
CallView(self, view) ==
    CASE self.cls = "Profile" /\ view = "base_info" -> Profile_base_info(self)
      [] self.cls = "Election" /\ view = "voters" -> Election_voters(self)
      [] self.cls = "Election" /\ view = "base_info" -> Election_base_info(self)
      [] self.cls = "Election" /\ view = "info" -> Election_info(self)

----------------------------------------------------------------------------
(* Volunteer.only_true                                                     *)

only_true_fields ==
    << "campus_ministries", "student_missions", "aswwu", "circle_church", "university_church",
       "assist", "lead", "audio_slash_visual", "health_promotion", "construction_experience",
       "outdoor_slash_camping", "concert_assistance", "event_set_up", "children_ministries",
       "children_story", "art_poetry_slash_painting_slash_sculpting", "organizing_events",
       "organizing_worship_opportunities", "organizing_community_outreach", "bible_study",
       "wycliffe_bible_translator_representative", "food_preparation", "graphic_design",
       "poems_slash_spoken_word", "prayer_team_slash_prayer_house",
       "dorm_encouragement_and_assisting_chaplains", "scripture_reading", "speaking",
       "videography", "drama", "public_school_outreach",
       "retirement_slash_nursing_home_outreach", "helping_the_homeless_slash_disadvantaged",
       "working_with_youth", "working_with_children", "greeting", "shofar_for_vespers",
       "music", "join_small_groups", "lead_small_groups", "can_transport_things", "languages",
       "wants_to_be_involved" >>

\* an element of only_true's list: str(f), or the dictionary {f: value}
NameEntry(f) == [kind |-> "str", s |-> f]
DictEntry(f, value) == [kind |-> "dict", key |-> f, value |-> value]

\* one iteration of only_true's loop: what it appends to data
only_true_body(self, f) ==
    IF PyEqTrue(GetAttr(self, f))
    THEN <<NameEntry(f)>>
    ELSE IF PyNeEmpty(GetAttr(self, f))
         THEN IF f = "music"
              THEN <<DictEntry("music", self.attrs["music"])>>
              ELSE IF f = "languages"
                   THEN <<DictEntry("languages", self.attrs["languages"])>>
                   ELSE <<>>
         ELSE <<>>

\* what the iterations lo..hi of the loop over fields append to data, in
\* order (the range is split in halves and the halves are joined)
RECURSIVE only_true_for(_, _, _)
only_true_for(self, lo, hi) ==
    IF lo > hi
    THEN <<>>
    ELSE IF lo = hi
         THEN only_true_body(self, only_true_fields[lo])
         ELSE LET mid == (lo + hi) \div 2
              IN  only_true_for(self, lo, mid) \o only_true_for(self, mid + 1, hi)

\* data = []; for f in fields: ...; return data
only_true(self) == <<>> \o only_true_for(self, 1, Len(only_true_fields))

----------------------------------------------------------------------------
(* Construction and update of a row.                                       *)

\* uuid_gen(): str(uuid.uuid4()); k is the random draw
uuid_gen(k) == StrVal("uuid4-" \o ToString(k))

\* the columns of Volunteer declared with default=False
VolunteerDefaultFalse == Range(VolunteerBooleanColumns) \cup Range(VolunteerTextColumns)

\* the value a column takes on INSERT when the caller gave none: default=
\* of its Column(), None when it has no default (updated_at has only onupdate)
ColumnDefault(cls, c, k) ==
    IF c = "id"
    THEN uuid_gen(k)
    ELSE IF cls = "Volunteer" /\ c \in VolunteerDefaultFalse
         THEN BoolVal(FALSE)
         ELSE None

\* Fault: a class that redeclares updated_at loses the onupdate hook.
UpdatedAtOnUpdate_BaseOnly(cls, old, t) ==
    IF cls \in {"Volunteer", "Election"} THEN old ELSE DateTimeVal(t)

\* the value updated_at takes on UPDATE: onupdate=datetime.datetime.now, in
\* the base and in the classes that redeclare the column
UpdatedAtOnUpdate(cls, old, t) == DateTimeVal(t)

NoValues == [c \in {} |-> None]

\* cls(**given), added and flushed at time t with uuid draw k
NewRow(cls, given, k, t) ==
    [cls |-> cls,
     attrs |-> [c \in Range(Columns(cls)) |->
                  IF c \in DOMAIN given THEN given[c] ELSE ColumnDefault(cls, c, k)],
     id0 |-> uuid_gen(k), ctime |-> t, nmut |-> 0, mtime |-> t]

\* setattr(row, c, v) flushed at time t
UpdatedRow(row, c, v, t) ==
    [row EXCEPT !.attrs = [row.attrs EXCEPT
                              ![c] = v,
                              !["updated_at"] = UpdatedAtOnUpdate(row.cls, @, t)],
                !.nmut = @ + 1,
                !.mtime = t]

\* Fault: id is not declared the primary key, so nothing rejects a duplicate.
PrimaryKeyFree_NoConstraint(table, id) == TRUE

\* primary_key=True on id: an INSERT succeeds only when no row of the same
\* table holds the identifier
PrimaryKeyFree(table, id) ==
    \A i \in 1..Len(rows) : Table(rows[i].cls) = table => rows[i].attrs["id"] # id

----------------------------------------------------------------------------
(* Inputs.                                                                 *)

Merge(f, g) == [k \in DOMAIN f \cup DOMAIN g |-> IF k \in DOMAIN f THEN f[k] ELSE g[k]]

\* a populated record of each class
Populated(cls) ==
    CASE cls \in {"User", "ElectionUser"} ->
            [wwuid |-> StrVal("1234567"), username |-> StrVal("jdoe"),
             full_name |-> StrVal("Jane Doe"), status |-> StrVal("Student"),
             roles |-> StrVal("admin")]
      [] cls = "Profile" ->
            [wwuid |-> StrVal("1234567"), username |-> StrVal("jdoe"),
             full_name |-> StrVal("Jane Doe"), photo |-> StrVal("jdoe.jpg"),
             email |-> StrVal("jdoe@wallawalla.edu"), views |-> IntVal(5),
             gender |-> StrVal("female"), privacy |-> IntVal(1)]
      [] cls = "Volunteer" ->
            [wwuid |-> StrVal("1234567"), bible_study |-> BoolVal(TRUE),
             music |-> StrVal("guitar"), languages |-> StrVal("")]
      [] cls = "Election" ->
            [wwuid |-> StrVal("1234567"), candidate_one |-> StrVal("A"),
             candidate_two |-> StrVal("B"), sm_one |-> StrVal("C"), sm_two |-> StrVal("D"),
             new_department |-> StrVal("E"), district |-> StrVal("1")]

Templates(cls) == {NoValues, Populated(cls)}

\* the Integer columns
IntegerColumns(cls) == IF cls = "Profile" THEN {"views", "privacy"} ELSE {}

\* values a caller may store in a field: nothing, or a value of the column's
\* type; a text may be a unicode object with a non-ascii character
InputValues(cls, c) ==
    IF c \in IntegerColumns(cls)
    THEN {None, IntVal(1)}
    ELSE {None, UnicodeVal("ann", TRUE), UnicodeVal("Jos<e9>", FALSE)}

\* the fields the inputs of to_json vary
ToJsonVaried(cls) ==
    CASE cls \in {"User", "ElectionUser"} -> {"wwuid", "username"}
      [] cls = "Profile" -> {"username", "full_name", "photo", "email", "views", "gender"}
      [] cls = "Volunteer" -> {"wwuid", "music"}
      [] cls = "Election" -> {"wwuid", "candidate_one"}

\* the subsets of S with at most n elements
RECURSIVE SubsetsUpTo(_, _)
SubsetsUpTo(S, n) ==
    IF n = 0
    THEN {{}}
    ELSE LET smaller == SubsetsUpTo(S, n - 1)
         IN  smaller \cup { T \cup {x} : T \in smaller, x \in S }

\* the values given to a constructor: a template with at most MaxOverride of
\* the fields in varied set to one of the values valuesOf gives for the field
GivenValues(cls, varied, valuesOf(_, _)) ==
    UNION { { Merge(f, tpl) :
                f \in { g \in [S -> UNION {valuesOf(cls, c) : c \in S}] :
                          \A c \in S : g[c] \in valuesOf(cls, c) } } :
            <<S, tpl>> \in SubsetsUpTo(varied, MaxOverride) \X Templates(cls) }

ToJsonInputs ==
    UNION { { NewRow(cls, given, 1, 0) : given \in GivenValues(cls, ToJsonVaried(cls), InputValues) } :
            cls \in Classes }

\* the survey answers a Volunteer may hold: a flag is true or false; music
\* and languages are unset, at their default, empty, or a text
SurveyValues(cls, c) ==
    IF c \in Range(VolunteerTextColumns)
    THEN {None, BoolVal(FALSE), StrVal(""), StrVal("guitar")}
    ELSE {BoolVal(TRUE), BoolVal(FALSE)}

OnlyTrueInputs ==
    { NewRow("Volunteer", given, 1, 0) :
        given \in GivenValues("Volunteer",
                              Range(VolunteerBooleanColumns) \cup Range(VolunteerTextColumns),
                              SurveyValues) }

\* the names a caller puts in skipList and limitList: the identifier, a
\* column, a name that is no attribute, and a method
KwNames == {"id", "wwuid", "nosuch", "to_json"}

SeqsUpTo(S, n) == UNION { [1..m -> S] : m \in 0..n }

NoKwargs == [k \in {} |-> <<>>]

AllKwargs ==
    LET skips == SeqsUpTo(KwNames, MaxSkip)
        limits == SeqsUpTo(KwNames, MaxLimit)
    IN  {NoKwargs}
        \cup { [skipList |-> s] : s \in skips }
        \cup { [limitList |-> l] : l \in limits }
        \cup { [skipList |-> s, limitList |-> l] : s \in skips, l \in limits }

\* the options of the calls made during a record's life
LifecycleKwargs == {NoKwargs, [skipList |-> <<"wwuid">>, limitList |-> <<"id", "wwuid", "updated_at">>]}

\* a record as constructed at time t, fresh or populated
RecordInputs(t) ==
    UNION { { NewRow(cls, given, 1, t) : given \in Templates(cls) } : cls \in Classes }

\* the writes the lifecycle makes: <<column, value>>
Writes(cls) ==
    CASE cls \in {"User", "ElectionUser"} -> {"username"} \X {StrVal("jdoe"), UnicodeVal("Jos<e9>", FALSE)}
      [] cls = "Profile" -> {"views"} \X {IntVal(5), IntVal(6)}
      [] cls = "Volunteer" -> {"music"} \X {StrVal("guitar"), StrVal("")}
      [] cls = "Election" -> {"candidate_one"} \X {StrVal("A"), StrVal("B")}

----------------------------------------------------------------------------
(* Actions.  last is the latest call on a row not updated since: its       *)
(* method, row, options and result, and n, 2 when the call before it was   *)
(* the same call and 1 otherwise.                                          *)

NoCall == [op |-> "none"]

Called(name, i, kwargs, ret) ==
    LET again == /\ last # NoCall
                 /\ last.op = name /\ last.row = i /\ last.args = kwargs
    IN  [op |-> name, row |-> i, args |-> kwargs, ret |-> ret, n |-> IF again THEN 2 ELSE 1]

\* session.add(cls(**given)); session.commit(): the row is stored unless
\* the primary key rejects it, and then nothing is stored
Insert(cls, given, k) ==
    /\ Len(rows) < MaxRows
    /\ PrimaryKeyFree(Table(cls), uuid_gen(k))
    /\ rows' = Append(rows, NewRow(cls, given, k, now))
    /\ UNCHANGED <<now, last>>

\* row.c = v; session.commit(): a write that changes the field
Update(i, c, v) ==
    /\ rows[i].nmut < MaxMutations
    /\ rows[i].attrs[c] # v
    /\ rows' = [rows EXCEPT ![i] = UpdatedRow(rows[i], c, v, now)]
    /\ last' = IF last # NoCall /\ last.row = i THEN NoCall ELSE last
    /\ UNCHANGED now

\* time passes
Tick ==
    /\ now < MaxTime
    /\ now' = now + 1
    /\ UNCHANGED <<rows, last>>

\* Fault: serializing counts as an update of the row.
ToJsonCall_Touch(i, kwargs) ==
    /\ last' = Called("to_json", i, kwargs, to_json(rows[i], kwargs))
    /\ rows' = [rows EXCEPT ![i].attrs["updated_at"] = DateTimeVal(now)]
    /\ UNCHANGED now

\* rows[i].to_json(**kwargs)
ToJsonCall(i, kwargs) ==
    /\ last' = Called("to_json", i, kwargs, to_json(rows[i], kwargs))
    /\ UNCHANGED <<rows, now>>

\* rows[i].<view>()
ViewCall(i, view) ==
    /\ view \in Views(rows[i].cls)
    /\ last' = Called(view, i, NoKwargs, CallView(rows[i], view))
    /\ UNCHANGED <<rows, now>>

\* rows[i].only_true()
OnlyTrueCall(i) ==
    /\ rows[i].cls = "Volunteer"
    /\ last' = Called("only_true", i, NoKwargs, only_true(rows[i]))
    /\ UNCHANGED <<rows, now>>

----------------------------------------------------------------------------
(* The tables: rows are inserted, updated and serialized.                  *)

Init ==
    /\ rows = <<>>
    /\ now = 0
    /\ last = NoCall

Next ==
    \/ \E cls \in Classes, k \in 1..NumUuids : Insert(cls, Populated(cls), k)
    \/ \E i \in 1..Len(rows) : \E w \in Writes(rows[i].cls) : Update(i, w[1], w[2])
    \/ Tick
    \/ \E i \in 1..Len(rows) : ToJsonCall(i, NoKwargs)
    \/ \E i \in 1..Len(rows) : \E view \in Views(rows[i].cls) : ViewCall(i, view)

Spec == Init /\ [][Next]_vars

(* The life of one record: constructed at some time, then updated and      *)
(* serialized in any order.                                                *)

InitRecord ==
    /\ now \in 0..MaxTime
    /\ rows \in { <<r>> : r \in RecordInputs(now) }
    /\ last = NoCall

NextRecord ==
    \/ \E w \in Writes(rows[1].cls) : Update(1, w[1], w[2])
    \/ Tick
    \/ \E kwargs \in LifecycleKwargs : ToJsonCall(1, kwargs)
    \/ \E view \in Views(rows[1].cls) : ViewCall(1, view)

SpecRecord == InitRecord /\ [][NextRecord]_vars

(* to_json and the views as functions of a record and the options: one     *)
(* call on each input.                                                     *)

InitToJson ==
    /\ rows \in { <<r>> : r \in ToJsonInputs }
    /\ now = 0
    /\ last = NoCall

NextToJson ==
    \/ last = NoCall /\ \E kwargs \in AllKwargs : ToJsonCall(1, kwargs)
    \/ last = NoCall /\ \E view \in Views(rows[1].cls) : ViewCall(1, view)

SpecToJson == InitToJson /\ [][NextToJson]_vars

(* only_true as a function of a Volunteer.                                 *)

InitOnlyTrue ==
    /\ rows \in { <<r>> : r \in OnlyTrueInputs }
    /\ now = 0
    /\ last = NoCall

NextOnlyTrue == last = NoCall /\ OnlyTrueCall(1)

SpecOnlyTrue == InitOnlyTrue /\ [][NextOnlyTrue]_vars

----------------------------------------------------------------------------
(* Properties.                                                             *)

\* the row, the options and the result of the latest call
CallRow == rows[last.row]
Limit == KwGet(last.args, "limitList", Columns(CallRow.cls))
Skip == KwGet(last.args, "skipList", <<>>)
IsToJson == last # NoCall /\ last.op = "to_json"
IsView == last # NoCall /\ last.op \in {"base_info", "voters", "info"}

\* the effective field set: limit (or all columns) minus skip minus id
Retained == (Range(Limit) \ Range(Skip)) \ {"id"}

\* the retained names whose value str() converts
Convertible == {key \in Retained : PyStr(GetAttr(CallRow, key)).ok}

(* C1: when limit names only declared fields and every field value        *)
(* converts to a string, the key set of to_json's result is exactly limit  *)
(* (or all declared fields) minus skip minus 'id'.                         *)
C1_KeySet ==
    ( /\ IsToJson
      /\ Range(Limit) \subseteq Range(Columns(CallRow.cls))
      /\ \A c \in Range(Columns(CallRow.cls)) : PyStr(CallRow.attrs[c]).ok )
    => /\ last.ret.ok
       /\ DOMAIN last.ret.obj = Retained
       /\ DOMAIN last.ret.obj \cap Range(Skip) = {}
       /\ DOMAIN last.ret.obj \subseteq Range(Limit)

\* a call whose limit repeats a declared name: one entry comes back
C1_Witness ==
    /\ IsToJson
    /\ CallRow.cls \in ElectionClasses
    /\ \A c \in Range(Columns(CallRow.cls)) : PyStr(CallRow.attrs[c]).ok
    /\ Limit = <<"wwuid", "wwuid">>
    /\ "skipList" \in DOMAIN last.args /\ Skip = <<"id">>
    /\ last.ret.ok /\ DOMAIN last.ret.obj = {"wwuid"}

(* C2: 'id' is never a key of the result of to_json or of a view, whatever *)
(* the options are.                                                        *)
C2_NoIdentifier ==
    ((IsToJson \/ IsView) /\ last.ret.ok) => "id" \notin DOMAIN last.ret.obj

\* a call that asks for 'id' in limit, with a skip list that does not name it
C2_Witness ==
    /\ IsToJson
    /\ "id" \in Range(Limit)
    /\ "skipList" \in DOMAIN last.args /\ Skip = <<"wwuid">>
    /\ last.ret.ok

(* C3: a failed conversion of a retained field's value raises nothing: the *)
(* call returns a mapping that lacks exactly the keys whose conversion     *)
(* failed and holds every other retained field with its string value.      *)
(* (The retained names are attributes of the record: C10 covers the rest.) *)
C3_DropOnFailure ==
    ( /\ IsToJson
      /\ \A key \in Retained : HasAttr(CallRow, key) )
    => /\ last.ret.ok
       /\ DOMAIN last.ret.obj = Convertible
       /\ \A key \in Convertible : last.ret.obj[key] = PyStr(GetAttr(CallRow, key)).s

\* a call in which exactly one retained field fails to convert and others
\* are returned
C3_Witness ==
    /\ IsToJson
    /\ \A key \in Retained : HasAttr(CallRow, key)
    /\ Cardinality(Retained \ Convertible) = 1
    /\ last.ret.ok
    /\ Cardinality(DOMAIN last.ret.obj) >= 2
    /\ DOMAIN last.ret.obj = Retained \ (Retained \ Convertible)

(* C4: updated_at is unset from construction until the first update, and   *)
(* after every update it is the time of the most recent update, which is   *)
(* not before the construction time; for every class.                      *)
C4_UpdatedAt ==
    \A i \in 1..Len(rows) :
        /\ rows[i].nmut = 0 => rows[i].attrs["updated_at"] = None
        /\ rows[i].nmut > 0 =>
              /\ rows[i].attrs["updated_at"] = DateTimeVal(rows[i].mtime)
              /\ rows[i].mtime >= rows[i].ctime

\* a Volunteer updated twice, the second time after its construction time,
\* and serialized since
C4_Witness ==
    /\ Len(rows) = 1
    /\ rows[1].cls = "Volunteer"
    /\ rows[1].nmut = 2
    /\ rows[1].mtime > rows[1].ctime
    /\ rows[1].attrs["updated_at"] = DateTimeVal(now)
    /\ last # NoCall

(* C5: every row holds the identifier it was given at construction, and no *)
(* two rows of the same table hold the same identifier.                    *)
C5_Identifier ==
    /\ \A i \in 1..Len(rows) :
          /\ rows[i].attrs["id"] = rows[i].id0
          /\ rows[i].attrs["id"].t = "str"
    /\ \A i, j \in 1..Len(rows) :
          (i # j /\ Table(rows[i].cls) = Table(rows[j].cls))
             => rows[i].attrs["id"] # rows[j].attrs["id"]

\* two rows of one table, one of them updated and serialized since
C5_Witness ==
    /\ Len(rows) = 2
    /\ Table(rows[1].cls) = Table(rows[2].cls)
    /\ rows[1].nmut > 0
    /\ last # NoCall /\ last.row = 1

\* the Boolean columns of the latest call's row that are true, in order
TrueFlags == SelectSeq(VolunteerBooleanColumns, LAMBDA f : CallRow.attrs[f] = BoolVal(TRUE))

(* C6: for every Boolean column of Volunteer, only_true lists the column's *)
(* name if and only if the flag is true, in the order of the field list.   *)
C6_EveryFlagListed ==
    (last # NoCall /\ last.op = "only_true")
    => /\ \A f \in Range(VolunteerBooleanColumns) :
             (NameEntry(f) \in Range(last.ret)) <=> (CallRow.attrs[f] = BoolVal(TRUE))
       /\ SelectSeq(last.ret, LAMBDA e : e.kind = "str")
            = [n \in 1..Len(TrueFlags) |-> NameEntry(TrueFlags[n])]

\* a text value that is not empty
NonEmptyText(value) == value.t \in {"str", "unicode"} /\ value.s # ""

(* C7: only_true holds the entry {music: value} if and only if music is a  *)
(* non-empty text, and likewise for languages; a false, empty or unset     *)
(* value contributes no entry.                                             *)
C7_TextEntries ==
    (last # NoCall /\ last.op = "only_true")
    => \A f \in Range(VolunteerTextColumns) :
          /\ (\E n \in 1..Len(last.ret) : last.ret[n].kind = "dict" /\ last.ret[n].key = f)
                <=> NonEmptyText(CallRow.attrs[f])
          /\ NonEmptyText(CallRow.attrs[f])
                => DictEntry(f, CallRow.attrs[f]) \in Range(last.ret)

\* a step that makes a call
CallStep == last' # NoCall /\ last' # last

\* the call made repeats the latest one, on a row not updated in between
SameCall ==
    /\ last # NoCall
    /\ last'.op = last.op /\ last'.row = last.row /\ last'.args = last.args

(* C8: a call of to_json or of a view leaves every row as it was, and a    *)
(* call repeated on a row that was not updated in between returns the same *)
(* mapping.                                                                *)
C8_ReadOnlyRepeatable ==
    [][CallStep => (rows' = rows /\ (SameCall => last'.ret = last.ret))]_vars

\* the same call made twice in a row on a record that had been updated
C8_Witness ==
    /\ last # NoCall
    /\ last.n = 2
    /\ last.ret.ok
    /\ CallRow.nmut > 0
    /\ "updated_at" \in DOMAIN last.ret.obj

BaseInfoKeys == {"username", "full_name", "photo", "email", "views"}

IsProfileBaseInfo == last # NoCall /\ last.op = "base_info" /\ CallRow.cls = "Profile"

(* C9 as claimed: for every Profile, base_info's key set is exactly        *)
(* {username, full_name, photo, email, views}.                             *)
C9_ExactlyFiveKeys ==
    IsProfileBaseInfo
    => /\ last.ret.ok
       /\ DOMAIN last.ret.obj = BaseInfoKeys
       /\ \A key \in BaseInfoKeys : last.ret.obj[key] = PyStr(CallRow.attrs[key]).s

(* C9 as amended: base_info's key set is exactly those of the five fields  *)
(* whose value converts to a string (all five when every one converts),    *)
(* each with its string value; no other field, id or wwuid appears.        *)
C9_ConvertibleOfFive ==
    IsProfileBaseInfo
    => /\ last.ret.ok
       /\ DOMAIN last.ret.obj = {key \in BaseInfoKeys : PyStr(CallRow.attrs[key]).ok}
       /\ \A key \in DOMAIN last.ret.obj : last.ret.obj[key] = PyStr(CallRow.attrs[key]).s
       /\ (\A key \in BaseInfoKeys : PyStr(CallRow.attrs[key]).ok)
             => DOMAIN last.ret.obj = BaseInfoKeys

\* base_info of a populated profile whose views is 5
C9_Witness ==
    /\ IsProfileBaseInfo
    /\ CallRow.attrs["username"] = StrVal("jdoe")
    /\ CallRow.attrs["wwuid"] # None
    /\ CallRow.attrs["gender"] # None
    /\ last.ret.ok
    /\ DOMAIN last.ret.obj = BaseInfoKeys
    /\ last.ret.obj["views"] = "5"

\* the names of limit that are read and are no attribute of the record
Missing == {key \in Retained : ~HasAttr(CallRow, key)}

(* C10: when limit holds a name that is not skipped, is not 'id' and is no *)
(* attribute of the record, the call fails with an error and returns no    *)
(* mapping, whatever came earlier in limit.                                *)
C10_MissingAttributeRaises ==
    (IsToJson /\ Missing # {}) => (~last.ret.ok /\ last.ret = Raise("AttributeError"))

\* a limit with a column first and a name that is no attribute second
C10_Witness ==
    /\ IsToJson
    /\ Limit = <<"wwuid", "nosuch">>
    /\ Skip = <<>>
    /\ PyStr(CallRow.attrs["wwuid"]).ok
    /\ ~last.ret.ok

====
